---- MODULE Spec2Model ----
(***************************************************************************)
(* Product catalogue service: registration, login, bearer-token guarded    *)
(* product CRUD (auth.py, product_apiroute.py).                            *)
(*                                                                         *)
(* The relational store is modelled as two sets of rows, a request as one  *)
(* atomic step (one unit of work per request), and the last response as    *)
(* the variable resp.  The clock `now` counts whole minutes and advances   *)
(* by a token lifetime at a time, so that a token is seen before, at and   *)
(* after its expiry.                                                       *)
(***************************************************************************)
EXTENDS Integers, FiniteSets, Sequences, TLC

VARIABLES
    users,       \* rows of the user table
    nextUserId,  \* the user table's id sequence
    products,    \* rows of the product table
    tokens,      \* the access token each client holds: the last one its login got
    now,         \* the server clock (datetime.utcnow), in minutes
    pending,     \* register requests between their lookup and their insert
    resp         \* the response to the last request

vars == <<users, nextUserId, products, tokens, now, pending, resp>>

----------------------------------------------------------------------------
(* Bounds of the model *)

MaxUserId == 2
MaxTicks == 2

(* Program constants *)

ACCESS_TOKEN_EXPIRE_MINUTES == 60
SECRET_KEY == "change-me-to-a-random-secret-in-production"

(* Input domains *)

Usernames == {"alice", "bob"}
Passwords == {"pw123", "guess"}
NoEmail == "None"
Emails == {NoEmail, "alice@example.com"}
Salts == {"s1"}
ProductIds == {1, 2}
ProductNames == {"pen", "ink"}
Sessions == {1, 2}

NoSub == "None"
NoToken == [absent |-> TRUE]
None == [none |-> TRUE]

\* model.py Product: the request body of create and update
Product ==
    [id : ProductIds, name : ProductNames, description : {"d"},
     price : {10}, quantity : {1}]

\* model.py UserCreate: the request body of register
UserCreate == [username : Usernames, email : Emails, password : Passwords]

----------------------------------------------------------------------------
(* Results of a dependency or handler: a value, or an HTTPException *)

Ok(v) == [ok |-> TRUE, value |-> v]
HTTPException(status, detail, headers) ==
    [ok |-> FALSE, status |-> status, detail |-> detail, headers |-> headers]

NoHeaders == {}
BearerChallenge == {<<"WWW-Authenticate", "Bearer">>}

Response(op, status, body) == [op |-> op, status |-> status, body |-> body]
Failure(op, exc) == Response(op, exc.status, [detail |-> exc.detail, headers |-> exc.headers])

----------------------------------------------------------------------------
(* Password hashing: passlib's argon2 context.  A hash carries its salt;    *)
(* verification recomputes the digest with the stored salt.                *)

Argon2(password, salt) == <<"argon2", salt, password>>

get_password_hash(password, salt) == [salt |-> salt, digest |-> Argon2(password, salt)]

verify_password(plain_password, hashed_password) ==
    Argon2(plain_password, hashed_password.salt) = hashed_password.digest

----------------------------------------------------------------------------
(* Token codec: jose's jwt.encode / jwt.decode with HS256.  The signature   *)
(* is a function of the claims and the key; decode rejects a token whose   *)
(* signature does not match its claims or whose exp is before the clock.   *)

HS256(claims, key) == <<"HS256", key, claims>>

jwt_encode(claims, key) == [claims |-> claims, sig |-> HS256(claims, key)]

jwt_decode(token, key, clock) ==
    IF token.sig # HS256(token.claims, key) THEN None
    ELSE IF token.claims.exp < clock THEN None
    ELSE token.claims

create_access_token(data, clock) ==
    LET expire == clock + ACCESS_TOKEN_EXPIRE_MINUTES
        to_encode == [sub |-> data.sub, is_superuser |-> data.is_superuser, exp |-> expire]
    IN jwt_encode(to_encode, SECRET_KEY)

----------------------------------------------------------------------------
(* DB helpers *)

get_user_by_username(db, username) ==
    IF \E r \in db : r.username = username
    THEN CHOOSE r \in db : r.username = username
    ELSE None

\* The user table's unique index on username: an insert of a second row
\* with a stored username fails (IntegrityError) and adds nothing.
UniqueViolation(db, row) == \E r \in db : r.username = row.username

\* create_user with the role flag set
create_user_superuser(user_in, salt, id) ==
    [id |-> id,
     username |-> user_in.username,
     email |-> user_in.email,
     hashed_password |-> get_password_hash(user_in.password, salt),
     is_active |-> TRUE,
     is_superuser |-> TRUE]

create_user(user_in, salt, id) ==
    [id |-> id,
     username |-> user_in.username,
     email |-> user_in.email,
     hashed_password |-> get_password_hash(user_in.password, salt),
     is_active |-> TRUE,
     is_superuser |-> FALSE]

----------------------------------------------------------------------------
(* Authentication dependencies *)

\* authenticate_user without the password check
authenticate_user_no_verify(db, username, password) ==
    get_user_by_username(db, username)

authenticate_user(db, username, password) ==
    LET user == get_user_by_username(db, username)
    IN IF user = None THEN None
       ELSE IF ~verify_password(password, user.hashed_password) THEN None
       ELSE user

credentials_exception == HTTPException(401, "Could not validate credentials", BearerChallenge)

\* OAuth2PasswordBearer: a request without an Authorization header
oauth2_scheme(token) ==
    IF token = NoToken THEN HTTPException(401, "Not authenticated", BearerChallenge) ELSE Ok(token)

get_current_user(token) ==
    LET bearer == oauth2_scheme(token)
    IN IF ~bearer.ok THEN bearer
       ELSE LET payload == jwt_decode(token, SECRET_KEY, now)
            IN IF payload = None THEN credentials_exception
               ELSE IF payload.sub = NoSub THEN credentials_exception
               ELSE LET user == get_user_by_username(users, payload.sub)
                    IN IF user = None THEN credentials_exception ELSE Ok(user)

get_current_active_user(token) ==
    LET current_user == get_current_user(token)
    IN IF ~current_user.ok THEN current_user
       ELSE IF ~current_user.value.is_active THEN HTTPException(400, "Inactive user", NoHeaders)
       ELSE current_user

\* require_admin without the role check
require_admin_any(token) == get_current_user(token)

\* require_admin deciding by the token's role claim instead of the stored user
require_admin_by_claim(token) ==
    LET current_user == get_current_user(token)
    IN IF ~current_user.ok THEN current_user
       ELSE IF ~token.claims.is_superuser
            THEN HTTPException(403, "Admin privileges required", NoHeaders)
       ELSE current_user

require_admin(token) ==
    LET current_user == get_current_user(token)
    IN IF ~current_user.ok THEN current_user
       ELSE IF ~current_user.value.is_superuser
            THEN HTTPException(403, "Admin privileges required", NoHeaders)
       ELSE current_user

----------------------------------------------------------------------------
(* What a client can put in the Authorization header: nothing, a token it  *)
(* was issued, or an issued token with its role claim altered (the         *)
(* signature no longer matches the claims).                                *)

Tamper(t) == [t EXCEPT !.claims.is_superuser = ~@]

Presentable == {NoToken} \cup tokens \cup {Tamper(t) : t \in tokens}

\* model.py UserRead: the response model of register and /me
UserRead(user) ==
    [id |-> user.id, username |-> user.username, email |-> user.email,
     is_active |-> user.is_active, is_superuser |-> user.is_superuser]

Idle == [pc |-> "idle"]

----------------------------------------------------------------------------
(* auth.py routes *)

\* register replacing the stored row of a taken username
register_overwrite(user_in, salt) ==
    LET user == create_user(user_in, salt, nextUserId)
    IN /\ nextUserId <= MaxUserId
       /\ users' = {r \in users : r.username # user_in.username} \cup {user}
       /\ nextUserId' = nextUserId + 1
       /\ resp' = Response("register", 201, UserRead(user))
       /\ UNCHANGED <<products, tokens, now, pending>>

\* POST /auth/register, as one unit of work
register(user_in, salt) ==
    LET existing == get_user_by_username(users, user_in.username)
    IN IF existing # None
       THEN /\ resp' = Failure("register", HTTPException(400, "Username already registered", NoHeaders))
            /\ UNCHANGED <<users, nextUserId, products, tokens, now, pending>>
       ELSE LET user == create_user(user_in, salt, nextUserId)
            IN /\ nextUserId <= MaxUserId
               /\ users' = users \cup {user}
               /\ nextUserId' = nextUserId + 1
               /\ resp' = Response("register", 201, UserRead(user))
               /\ UNCHANGED <<products, tokens, now, pending>>

\* POST /auth/token
login_for_access_token(username, password) ==
    LET user == authenticate_user(users, username, password)
    IN IF user = None
       THEN /\ resp' = Failure("login", HTTPException(401, "Incorrect username or password", BearerChallenge))
            /\ UNCHANGED <<users, nextUserId, products, tokens, now, pending>>
       ELSE LET token_data == [sub |-> user.username, is_superuser |-> user.is_superuser]
                access_token == create_access_token(token_data, now)
            IN /\ tokens' = {t \in tokens : t.claims.sub # username} \cup {access_token}
               /\ resp' = Response("login", 200,
                                   [access_token |-> access_token, token_type |-> "bearer"])
               /\ UNCHANGED <<users, nextUserId, products, now, pending>>

\* GET /auth/me
read_users_me(token) ==
    LET current_user == get_current_active_user(token)
    IN /\ resp' = IF current_user.ok
                  THEN Response("me", 200, UserRead(current_user.value))
                  ELSE Failure("me", current_user)
       /\ UNCHANGED <<users, nextUserId, products, tokens, now, pending>>

\* GET /auth/admin-only
admin_only_route(token) ==
    LET current_user == require_admin(token)
    IN /\ resp' = IF current_user.ok
                  THEN Response("admin_only", 200, [msg |-> current_user.value.username])
                  ELSE Failure("admin_only", current_user)
       /\ UNCHANGED <<users, nextUserId, products, tokens, now, pending>>

----------------------------------------------------------------------------
(* product_apiroute.py routes.  The product table's primary key is id: a    *)
(* commit that would store two rows with one id fails and is rolled back.  *)

ProductRow(db, id) ==
    IF \E r \in db : r.id = id THEN CHOOSE r \in db : r.id = id ELSE None

PrimaryKeyViolation(db) == \E r1 \in db, r2 \in db : r1 # r2 /\ r1.id = r2.id

server_error(op) == Response(op, 500, [detail |-> "Internal Server Error"])

\* GET /products/products
get_products ==
    /\ resp' = Response("get_products", 200, [rows |-> products])
    /\ UNCHANGED <<users, nextUserId, products, tokens, now, pending>>

\* The body GET /products/{id} answers with on the table db
read_product(db, id) ==
    LET product == ProductRow(db, id)
    IN IF product # None THEN product ELSE [text |-> "Product not found!!"]

\* GET /products/{id}
get_product_by_id(id) ==
    /\ resp' = Response("get_product_by_id", 200, read_product(products, id))
    /\ UNCHANGED <<users, nextUserId, products, tokens, now, pending>>

\* POST /products/
add_product(token, product) ==
    LET current_user == require_admin(token)
    IN IF ~current_user.ok
       THEN /\ resp' = Failure("add_product", current_user)
            /\ UNCHANGED <<users, nextUserId, products, tokens, now, pending>>
       ELSE IF current_user.value.is_superuser
       THEN IF \E r \in products : r.id = product.id
            THEN /\ resp' = server_error("add_product")
                 /\ UNCHANGED <<users, nextUserId, products, tokens, now, pending>>
            ELSE /\ products' = products \cup {product}
                 /\ resp' = Response("add_product", 200, product)
                 /\ UNCHANGED <<users, nextUserId, tokens, now, pending>>
       ELSE /\ resp' = Response("add_product", 200,
                                [error |-> "Admin privileges required to add a product."])
            /\ UNCHANGED <<users, nextUserId, products, tokens, now, pending>>

\* update_product storing the body when the id is not there
update_product_upsert(token, id, updated_product) ==
    LET current_user == require_admin(token)
        product == ProductRow(products, id)
        updated == (products \ {product}) \cup {updated_product}
    IN IF ~current_user.ok
       THEN /\ resp' = Failure("update_product", current_user)
            /\ UNCHANGED <<users, nextUserId, products, tokens, now, pending>>
       ELSE IF PrimaryKeyViolation(updated)
       THEN /\ resp' = server_error("update_product")
            /\ UNCHANGED <<users, nextUserId, products, tokens, now, pending>>
       ELSE /\ products' = updated
            /\ resp' = Response("update_product", 200,
                                [text |-> "Product Updated Successfully!!"])
            /\ UNCHANGED <<users, nextUserId, tokens, now, pending>>

\* update_product without the assignment of product.id
update_product_keep_id(token, id, updated_product) ==
    LET current_user == require_admin(token)
        product == ProductRow(products, id)
    IN IF ~current_user.ok
       THEN /\ resp' = Failure("update_product", current_user)
            /\ UNCHANGED <<users, nextUserId, products, tokens, now, pending>>
       ELSE IF product # None
       THEN /\ products' = (products \ {product}) \cup {[updated_product EXCEPT !.id = id]}
            /\ resp' = Response("update_product", 200,
                                [text |-> "Product Updated Successfully!!"])
            /\ UNCHANGED <<users, nextUserId, tokens, now, pending>>
       ELSE /\ resp' = Response("update_product", 200, [error |-> "Product not found!!"])
            /\ UNCHANGED <<users, nextUserId, products, tokens, now, pending>>

\* PUT /products/{id}
update_product(token, id, updated_product) ==
    LET current_user == require_admin(token)
        product == ProductRow(products, id)
        updated == (products \ {product}) \cup {updated_product}
    IN IF ~current_user.ok
       THEN /\ resp' = Failure("update_product", current_user)
            /\ UNCHANGED <<users, nextUserId, products, tokens, now, pending>>
       ELSE IF ~current_user.value.is_superuser
       THEN /\ resp' = Response("update_product", 200,
                                [error |-> "Admin privileges required to update a product."])
            /\ UNCHANGED <<users, nextUserId, products, tokens, now, pending>>
       ELSE IF product # None
       THEN IF PrimaryKeyViolation(updated)
            THEN /\ resp' = server_error("update_product")
                 /\ UNCHANGED <<users, nextUserId, products, tokens, now, pending>>
            ELSE /\ products' = updated
                 /\ resp' = Response("update_product", 200,
                                     [text |-> "Product Updated Successfully!!"])
                 /\ UNCHANGED <<users, nextUserId, tokens, now, pending>>
       ELSE /\ resp' = Response("update_product", 200, [error |-> "Product not found!!"])
            /\ UNCHANGED <<users, nextUserId, products, tokens, now, pending>>

\* DELETE /products/{id}
delete_product(token, id) ==
    LET current_user == require_admin(token)
        db_product == ProductRow(products, id)
    IN IF ~current_user.ok
       THEN /\ resp' = Failure("delete_product", current_user)
            /\ UNCHANGED <<users, nextUserId, products, tokens, now, pending>>
       ELSE IF ~current_user.value.is_superuser
       THEN /\ resp' = Response("delete_product", 200,
                                [error |-> "Admin privileges required to delete a product."])
            /\ UNCHANGED <<users, nextUserId, products, tokens, now, pending>>
       ELSE IF db_product # None
       THEN /\ products' = products \ {db_product}
            /\ resp' = Response("delete_product", 200,
                                [text |-> "Product deleted successfully!!"])
            /\ UNCHANGED <<users, nextUserId, tokens, now, pending>>
       ELSE /\ resp' = Response("delete_product", 200, [text |-> "Product not found!!"])
            /\ UNCHANGED <<users, nextUserId, products, tokens, now, pending>>

----------------------------------------------------------------------------
(* The environment: the clock, and administration of the user table        *)
(* directly in the store (no endpoint does either).                        *)

Tick(d) ==
    /\ now + d <= MaxTicks * ACCESS_TOKEN_EXPIRE_MINUTES
    /\ now' = now + d
    /\ resp' = Response("clock", 0, [detail |-> "tick"])
    /\ UNCHANGED <<users, nextUserId, products, tokens, pending>>

SetFlags(u, active, admin) ==
    /\ u \in users
    /\ users' = (users \ {u}) \cup {[u EXCEPT !.is_active = active, !.is_superuser = admin]}
    /\ users' # users
    /\ resp' = Response("administration", 0, [detail |-> "flags"])
    /\ UNCHANGED <<nextUserId, products, tokens, now, pending>>

DeleteUser(u) ==
    /\ u \in users
    /\ users' = users \ {u}
    /\ resp' = Response("administration", 0, [detail |-> "delete"])
    /\ UNCHANGED <<nextUserId, products, tokens, now, pending>>

----------------------------------------------------------------------------
(* The service under sequential requests *)

\* The product table at start-up: what the database holds, or the default
\* rows init_db adds to an empty table; any table with one row per id.
InitialTables == {T \in SUBSET Product : ~PrimaryKeyViolation(T)}

Init ==
    /\ users = {}
    /\ nextUserId = 1
    /\ products \in InitialTables
    /\ tokens = {}
    /\ now = 0
    /\ pending = [s \in Sessions |-> Idle]
    /\ resp = Response("start", 0, [detail |-> "start"])

Alice == [username |-> "alice", email |-> NoEmail, password |-> "pw123"]

RegisterAlice == \E salt \in Salts : register(Alice, salt)
Login == \E u \in Usernames, p \in Passwords : login_for_access_token(u, p)
Me == \E t \in Presentable : read_users_me(t)
AdminOnly == \E t \in Presentable : admin_only_route(t)
GetProducts == get_products
GetProduct == \E id \in ProductIds : get_product_by_id(id)
AddProduct == \E t \in Presentable, p \in Product : add_product(t, p)
UpdateProduct == \E t \in Presentable, id \in ProductIds, p \in Product : update_product(t, id, p)
DeleteProduct == \E t \in Presentable, id \in ProductIds : delete_product(t, id)
Clock == Tick(ACCESS_TOKEN_EXPIRE_MINUTES)
Administer == \E u \in users, a \in BOOLEAN, s \in BOOLEAN : SetFlags(u, a, s)
Remove == \E u \in users : DeleteUser(u)

\* Every endpoint, one account (alice), the clock and store administration
Next ==
    \/ RegisterAlice
    \/ Login
    \/ Me
    \/ AdminOnly
    \/ GetProducts
    \/ GetProduct
    \/ AddProduct
    \/ UpdateProduct
    \/ DeleteProduct
    \/ Clock
    \/ Administer
    \/ Remove

Spec == Init /\ [][Next]_vars

----------------------------------------------------------------------------
(* The auth routes with every credential input; no role administration *)

\* Start-up with an empty product table (no default rows)
InitAuth == Init /\ products = {}

Register == \E user_in \in UserCreate, salt \in Salts : register(user_in, salt)

NextAuth ==
    \/ Register
    \/ Login
    \/ Me
    \/ AdminOnly
    \/ Clock
    \/ Remove

SpecAuth == InitAuth /\ [][NextAuth]_vars

----------------------------------------------------------------------------
(* Two register requests in flight, each in its own session: the lookup    *)
(* (line 117) and the insert (create_user's commit, line 68) are separate  *)
(* steps, and the other request may run between them.                      *)

register_lookup(s, user_in) ==
    /\ pending[s] = Idle
    /\ LET existing == get_user_by_username(users, user_in.username)
       IN IF existing # None
          THEN /\ resp' = Failure("register", HTTPException(400, "Username already registered", NoHeaders))
               /\ UNCHANGED <<users, nextUserId, products, tokens, now, pending>>
          ELSE /\ pending' = [pending EXCEPT ![s] = [pc |-> "create_user", user_in |-> user_in]]
               /\ resp' = Response("register_lookup", 0, [detail |-> "not found"])
               /\ UNCHANGED <<users, nextUserId, products, tokens, now>>

register_insert(s, salt) ==
    /\ pending[s] # Idle
    /\ nextUserId <= MaxUserId
    /\ LET user == create_user(pending[s].user_in, salt, nextUserId)
       IN IF UniqueViolation(users, user)
          THEN /\ resp' = server_error("register")
               /\ UNCHANGED users
          ELSE /\ users' = users \cup {user}
               /\ resp' = Response("register", 201, UserRead(user))
    /\ nextUserId' = nextUserId + 1
    /\ pending' = [pending EXCEPT ![s] = Idle]
    /\ UNCHANGED <<products, tokens, now>>

RegisterLookup == \E s \in Sessions, user_in \in UserCreate : register_lookup(s, user_in)
RegisterInsert == \E s \in Sessions, salt \in Salts : register_insert(s, salt)

NextRace ==
    \/ RegisterLookup
    \/ RegisterInsert

SpecRace == InitAuth /\ [][NextRace]_vars

----------------------------------------------------------------------------
(* Vocabulary of the properties, stated on the stores and the clock        *)

WriteOps == {"add_product", "update_product", "delete_product"}

Genuine(tok) == tok # NoToken /\ tok.sig = HS256(tok.claims, SECRET_KEY)

Caller(tok) == {r \in users : r.username = tok.claims.sub}

\* The token decodes (signed, not expired, has a subject) and its subject is stored
Authenticated(tok) ==
    /\ Genuine(tok)
    /\ tok.claims.exp >= now
    /\ tok.claims.sub # NoSub
    /\ Caller(tok) # {}

IsAdmin(tok) == \E r \in Caller(tok) : r.is_superuser
IsInactive(tok) == \E r \in Caller(tok) : ~r.is_active

\* The step is a request of route op bearing tok
WriteStepAs(op, tok) ==
    CASE op = "add_product" -> \E p \in Product : add_product(tok, p)
      [] op = "update_product" ->
            \E id \in ProductIds, p \in Product : update_product(tok, id, p)
      [] op = "delete_product" -> \E id \in ProductIds : delete_product(tok, id)
      [] OTHER -> FALSE

\* A step of a route behind the admin guard, and whether the guard let it through
GuardedStepAs(op, tok) ==
    IF op = "admin_only" THEN admin_only_route(tok) ELSE WriteStepAs(op, tok)
GuardedOps == WriteOps \cup {"admin_only"}
Refused(r) == r.status \in {401, 403}

NotFoundBodies == {[text |-> "Product not found!!"], [error |-> "Product not found!!"]}
Updated == [text |-> "Product Updated Successfully!!"]
Deleted == [text |-> "Product deleted successfully!!"]

----------------------------------------------------------------------------
\* C1: a product write changes the product table only when the request's
\* token decodes, its subject is stored and that user is an admin; a request
\* that fails authentication ends in 401, one by a non-admin in 403, and
\* both leave the product table unchanged.
C1_WriteRequiresAdmin ==
    [][resp'.op \in WriteOps =>
        \A tok \in Presentable : WriteStepAs(resp'.op, tok) =>
            /\ products' # products => Authenticated(tok) /\ IsAdmin(tok)
            /\ ~Authenticated(tok) => resp'.status = 401 /\ products' = products
            /\ Authenticated(tok) /\ ~IsAdmin(tok) =>
                   resp'.status = 403 /\ products' = products]_vars

\* A write by a stored, authenticated user who is no admin was refused with 403
C1_Witness ==
    /\ resp.op \in WriteOps /\ resp.status = 403
    /\ \E tok \in tokens : Authenticated(tok) /\ ~IsAdmin(tok)

\* C2 (as claimed): on every authenticated route a request with a valid token
\* of an inactive user ends in 400 "Inactive user" and writes nothing,
\* whatever the user's admin flag.
C2_InactiveRejectedEverywhere ==
    [][resp'.op \in GuardedOps \cup {"me"} =>
        \A tok \in tokens :
            /\ Authenticated(tok) /\ IsInactive(tok)
            /\ IF resp'.op = "me" THEN read_users_me(tok) ELSE GuardedStepAs(resp'.op, tok)
            =>
                /\ resp'.status = 400
                /\ resp'.body.detail = "Inactive user"
                /\ products' = products]_vars

\* C3 (as claimed): the admin guard decides by the admin flag the token was
\* issued with, not by the flag now in the store.
C3_GuardUsesIssuedFlag ==
    [][resp'.op \in GuardedOps =>
        \A tok \in tokens : Authenticated(tok) /\ GuardedStepAs(resp'.op, tok) =>
            (~Refused(resp') <=> tok.claims.is_superuser)]_vars

\* C3 (amended): login embeds the user's admin flag of that moment in the
\* token, and the admin guard decides by the flag in the store at request
\* time, whatever flag the token carries.
C3_GuardUsesStoredFlag ==
    [][/\ resp'.op = "login" /\ resp'.status = 200 =>
            LET t == resp'.body.access_token
            IN /\ t \in tokens'
               /\ \E r \in users : r.username = t.claims.sub
                                   /\ r.is_superuser = t.claims.is_superuser
       /\ resp'.op \in GuardedOps =>
            \A tok \in tokens : Authenticated(tok) /\ GuardedStepAs(resp'.op, tok) =>
                (~Refused(resp') <=> IsAdmin(tok))]_vars

\* The guard let through a token issued without the admin flag
C3_Witness ==
    /\ resp.op = "admin_only" /\ resp.status = 200
    /\ tokens # {}
    /\ \A tok \in tokens : ~tok.claims.is_superuser

\* C4 (as claimed): login mints a token with exp = now + 60 minutes for the
\* user's name and admin flag, and a request bearing it (its subject stored
\* and active) is verified while now < exp and refused with 401 once now >= exp.
C4_ExpiredAtExp ==
    [][/\ resp'.op = "login" /\ resp'.status = 200 =>
            LET c == resp'.body.access_token.claims
            IN /\ c.exp = now + ACCESS_TOKEN_EXPIRE_MINUTES
               /\ \E r \in users : r.username = c.sub /\ r.is_superuser = c.is_superuser
       /\ resp'.op = "me" =>
            \A tok \in tokens :
                read_users_me(tok) /\ Caller(tok) # {} /\ ~IsInactive(tok) =>
                    IF now < tok.claims.exp
                    THEN resp'.status = 200 /\ resp'.body.username = tok.claims.sub
                    ELSE resp'.status = 401]_vars

\* The password a stored row was registered with
RegisteredPassword(r) == r.hashed_password.digest[3]

\* C5: login issues a token exactly when the username is stored and the
\* password is the one it was registered with; every other login gets one
\* and the same 401 response with the Bearer challenge, and no token.
C5_LoginIffRegisteredPassword ==
    [][resp'.op = "login" =>
        \A u \in Usernames, p \in Passwords : login_for_access_token(u, p) =>
            IF \E r \in users : r.username = u /\ RegisteredPassword(r) = p
            THEN /\ resp'.status = 200
                 /\ resp'.body.access_token.claims.sub = u
                 /\ resp'.body.access_token \in tokens'
            ELSE /\ resp' = Response("login", 401,
                                     [detail |-> "Incorrect username or password",
                                      headers |-> BearerChallenge])
                 /\ tokens' = tokens]_vars

\* A login failed although every username is stored: the password was wrong
C5_Witness ==
    /\ resp.op = "login" /\ resp.status = 401
    /\ \A u \in Usernames : \E r \in users : r.username = u

\* C6: registering a stored username fails with 400 "Username already
\* registered", adds no row and leaves the stored row as it was.
C6_DuplicateRegistrationRejected ==
    [][resp'.op = "register" =>
        \A user_in \in UserCreate, salt \in Salts :
            register(user_in, salt) /\ (\E r \in users : r.username = user_in.username) =>
                /\ resp'.status = 400
                /\ resp'.body.detail = "Username already registered"
                /\ users' = users]_vars

\* A registration was refused as a duplicate
C6_Witness == resp.op = "register" /\ resp.status = 400 /\ users # {}

\* C7: an admin's update or delete of an id that is not stored answers
\* "not found" with status 200 and leaves the product table unchanged.
C7_MissingIdNotFound ==
    [][resp'.op \in {"update_product", "delete_product"} =>
        \A tok \in tokens, id \in ProductIds :
            /\ Authenticated(tok) /\ IsAdmin(tok)
            /\ \A r \in products : r.id # id
            /\ IF resp'.op = "update_product"
               THEN \E p \in Product : update_product(tok, id, p)
               ELSE delete_product(tok, id)
            => /\ resp'.status = 200
               /\ resp'.body \in NotFoundBodies
               /\ products' = products]_vars

\* An update answered "not found" while the table holds another product
C7_Witness ==
    /\ resp.op = "update_product"
    /\ resp.body = [error |-> "Product not found!!"]
    /\ products # {}

\* C8: a step of any endpoint keeps every stored user row as it is, and a
\* row it adds is active and not admin; only administration of the store
\* changes or removes a row.
C8_EndpointsKeepUsers ==
    [][resp'.op # "administration" =>
        /\ \A r \in users : r \in users'
        /\ \A r \in users' \ users : r.is_active /\ ~r.is_superuser]_vars

\* A registration succeeded after an earlier account was removed from the store
C8_Witness == resp.op = "register" /\ resp.status = 201 /\ nextUserId > 2

\* C9 (as claimed): of two concurrent registrations of one username one row
\* is stored and the loser gets the 400 duplicate error: no register request
\* ends in a server error.
C9_RaceLoserGets400 ==
    /\ resp.op = "register" => resp.status \in {201, 400}
    /\ \A r1 \in users, r2 \in users : r1.username = r2.username => r1 = r2

====
